---- MODULE Spec2Model ----
(***************************************************************************)
(* Model of master_deploy.py: the Streamlit dashboard over the suicide     *)
(* dataset.  The dataset loader, the filter engine, the sidebar, the three *)
(* page renderers and the number formatter are translated from the source. *)
(*                                                                         *)
(* Encoding.  A table (DataFrame) is a record [columns, rows]: the set of  *)
(* column names and the sequence of rows in index order.  A row is a       *)
(* record; idx is the CSV index label of the row.  Countries are natural   *)
(* numbers whose order is the alphabetical order of the country names.     *)
(* suicides_per_100k is held in tenths (123 stands for 12.3).              *)
(***************************************************************************)
EXTENDS Integers, Sequences, FiniteSets, TLC

VARIABLES
    f_df,       \* filter harness: the table handed to apply_filters
    f_args,     \* filter harness: countries, year_range, sexes, age_groups
    f_out,      \* filter harness: the table apply_filters returned
    f_pc,       \* filter harness: "input", "filtered", "refiltered"
    n_value,    \* format harness: the value handed to format_number
    n_out,      \* format harness: the string format_number returned
    csv,        \* the file at DATA_PATH: [header, rows]
    status,     \* how the last script run ended: "start" before the first run,
                \* "ok", "load_error", "filters_error", "page_error"
    cache,      \* st.cache_data's entry for load_data: [hit, df]
    widgets,    \* the labels of the widgets the last run rendered
    session,    \* the values of the widgets: page, countries, years, ...
    sidebar,    \* the options the sidebar filters offered in the last run
    filtered_df,\* what render_filters returned in the last run
    out         \* what the page renderer of the last run displayed

filterVars == <<f_df, f_args, f_out, f_pc>>
formatVars == <<n_value, n_out>>
appVars == <<csv, status, cache, widgets, session, sidebar, filtered_df, out>>
vars == <<filterVars, formatVars, appVars>>

(***************************************************************************)
(* Generic helpers on sequences.                                           *)
(***************************************************************************)
Range(s) == {s[i] : i \in DOMAIN s}

Min2(a, b) == IF a < b THEN a ELSE b

Abs(v) == IF v < 0 THEN 0 - v ELSE v

NoTable == [columns |-> {}, rows |-> <<>>]
NoArgs  == [countries |-> {}, year_range |-> <<0, 0>>, sexes |-> {}, age_groups |-> {}]

NoSession ==
    [page |-> "Home", countries |-> {}, years |-> <<0, 0>>, sexes |-> {},
     age_groups |-> {}, focus |-> 0]

NoOptions == [countries |-> <<>>, years |-> <<0, 0>>, sexes |-> <<>>, age_groups |-> <<>>]

(***************************************************************************)
(* Strings are sequences of one-character strings, so that a formatted     *)
(* number can be built digit by digit and read back.                       *)
(***************************************************************************)
DigitChars == <<"0", "1", "2", "3", "4", "5", "6", "7", "8", "9">>

RECURSIVE NatStr(_)
NatStr(n) ==
    IF n < 10 THEN <<DigitChars[n + 1]>>
    ELSE NatStr(n \div 10) \o <<DigitChars[(n % 10) + 1]>>

\* the three digits of a group after a thousands separator
Group3(n) ==
    <<DigitChars[(n \div 100) + 1], DigitChars[((n \div 10) % 10) + 1],
      DigitChars[(n % 10) + 1]>>

\* the "," format option on a natural number
RECURSIVE Grouped(_)
Grouped(n) ==
    IF n < 1000 THEN NatStr(n)
    ELSE Grouped(n \div 1000) \o <<",">> \o Group3(n % 1000)

Signed(negative, body) == IF negative THEN <<"-">> \o body ELSE body

\* a / b rounded to the nearest integer, for naturals a and b > 0.  The code
\* divides in binary floating point and the format rounds what the division
\* produced: a quotient that is not exactly halfway rounds as the exact one
\* does; an exact halfway case lands on either side, depending on the
\* double nearest to it, so both neighbours are outcomes.
RoundDiv(a, b) ==
    LET q == a \div b
        r == a % b
    IN  IF 2 * r < b THEN {q}
        ELSE IF 2 * r > b THEN {q + 1}
        ELSE {q, q + 1}

\* f"{x:.1f}" of a number given in tenths
Fixed1(negative, tenths) ==
    Signed(negative, NatStr(tenths \div 10) \o <<".">> \o NatStr(tenths % 10))

\* f"{x:,.0f}" of an integer
Comma0(v) == Signed(v < 0, Grouped(Abs(v)))

(***************************************************************************)
(* format_number (src/master_deploy.py:72-82).  The value is NaN or an     *)
(* integer (the callers pass integer column sums).  The result is the set  *)
(* of strings the call can return: one string, two on a halfway case.      *)
(***************************************************************************)
NaN == [isna |-> TRUE, num |-> 0]
Num(v) == [isna |-> FALSE, num |-> v]

Billion  == 1000000000
Million  == 1000000
Thousand == 1000

\* f"{value / unit:.1f}{suffix}"
Scaled(value, unit, suffix) ==
    {Fixed1(value < 0, t) \o <<suffix>> : t \in RoundDiv(Abs(value), unit \div 10)}

\* mutant: the thresholds compared with > instead of >=
format_number_strict(value) ==
    IF value.isna THEN {<<"-">>}
    ELSE IF Abs(value.num) > Billion THEN Scaled(value.num, Billion, "B")
    ELSE IF Abs(value.num) > Million THEN Scaled(value.num, Million, "M")
    ELSE IF Abs(value.num) > Thousand THEN Scaled(value.num, Thousand, "K")
    ELSE {Comma0(value.num)}

format_number(value) ==
    IF value.isna THEN {<<"-">>}
    ELSE IF Abs(value.num) >= Billion THEN Scaled(value.num, Billion, "B")
    ELSE IF Abs(value.num) >= Million THEN Scaled(value.num, Million, "M")
    ELSE IF Abs(value.num) >= Thousand THEN Scaled(value.num, Thousand, "K")
    ELSE {Comma0(value.num)}

(***************************************************************************)
(* apply_filters (src/master_deploy.py:85-100).                            *)
(***************************************************************************)
\* mutant: the bounds excluded
between_exclusive(y, left, right) == left < y /\ y < right

\* Series.between(left, right), inclusive="both"
between(y, left, right) == left <= y /\ y <= right

\* mutant: an empty list of values admits everything
isin_or_unrestricted(v, values) == values = {} \/ v \in values

\* Series.isin(values)
isin(v, values) == v \in values

\* the boolean mask of apply_filters, for one row
RowMask(r, countries, year_range, sexes, age_groups) ==
    /\ isin(r.country, countries)
    /\ between(r.year, year_range[1], year_range[2])
    /\ isin(r.sex, sexes)
    /\ isin(r.age_group, age_groups)

\* df.loc[mask] on the rows: a scan that keeps the masked rows in order
RECURSIVE LocMask(_, _, _, _, _)
LocMask(rows, countries, year_range, sexes, age_groups) ==
    IF rows = <<>> THEN <<>>
    ELSE LET r    == Head(rows)
             rest == LocMask(Tail(rows), countries, year_range, sexes, age_groups)
         IN  IF RowMask(r, countries, year_range, sexes, age_groups)
             THEN <<r>> \o rest
             ELSE rest

\* mutant: the first kept row is lost
apply_filters_less_one(df, countries, year_range, sexes, age_groups) ==
    LET kept == LocMask(df.rows, countries, year_range, sexes, age_groups)
    IN  [columns |-> df.columns, rows |-> IF kept = <<>> THEN kept ELSE Tail(kept)]

apply_filters(df, countries, year_range, sexes, age_groups) ==
    [columns |-> df.columns,
     rows    |-> LocMask(df.rows, countries, year_range, sexes, age_groups)]

(***************************************************************************)
(* Column helpers: sums, distinct values, sorted(...).                     *)
(***************************************************************************)
RECURSIVE Sum(_)
Sum(s) == IF s = <<>> THEN 0 ELSE Head(s) + Sum(Tail(s))

\* df[col].sum()
ColumnSum(rows, col) == Sum([i \in DOMAIN rows |-> rows[i][col]])

\* df[col].unique(), as a set
Unique(rows, col) == {rows[i][col] : i \in DOMAIN rows}

\* The order of Python's str comparison on the labels of the model.
Vocabulary == <<"Adults", "Seniors", "Youth", "female", "male">>

\* a number that orders the values of a column as Python orders them
KeyRank(v, col) ==
    IF col \in {"sex", "age_group"}
    THEN CHOOSE i \in DOMAIN Vocabulary : Vocabulary[i] = v
    ELSE v

\* sorted(values) for the values of column col
RECURSIVE Sorted(_, _)
Sorted(values, col) ==
    IF values = {} THEN <<>>
    ELSE LET m == CHOOSE x \in values :
                     \A y \in values : KeyRank(x, col) <= KeyRank(y, col)
         IN  <<m>> \o Sorted(values \ {m}, col)

(***************************************************************************)
(* load_data (src/master_deploy.py:48-69).  A CSV file is a record         *)
(* [header, rows]; a header cell is [name, padded], padded telling whether *)
(* the cell carries surrounding whitespace.                                *)
(***************************************************************************)
\* col.strip()
strip(cell) == cell.name

\* COLUMN_RENAMES, applied by df.rename(columns=COLUMN_RENAMES)
COLUMN_RENAMES(name) ==
    CASE name = "age range"          -> "age_range"
      [] name = "suicides/100k pop"  -> "suicides_per_100k"
      [] name = "country-year"       -> "country_year"
      [] name = "gdp_for_year ($)"   -> "gdp_for_year_usd"
      [] name = "gdp_per_capita ($)" -> "gdp_per_capita_usd"
      [] name = "ag_group"           -> "age_group"
      [] OTHER                       -> name

AgeRangeCategories ==
    {"5-14 years", "15-24 years", "25-34 years", "35-54 years", "55-74 years", "75+ years"}

\* pd.Categorical(values, categories=...): a value outside the categories is NaN
Categorical(v) == IF v \in AgeRangeCategories THEN v ELSE "NaN"

\* the key of sort_values(["country", "year"])
KeyLeq(a, b) == a.country < b.country \/ (a.country = b.country /\ a.year <= b.year)

\* sort_values on several columns is a stable sort: a row goes behind every
\* row whose key is not greater
RECURSIVE InsertRow(_, _)
InsertRow(sorted, r) ==
    IF sorted = <<>> THEN <<r>>
    ELSE IF KeyLeq(Head(sorted), r) THEN <<Head(sorted)>> \o InsertRow(Tail(sorted), r)
    ELSE <<r>> \o sorted

RECURSIVE sort_values(_)
sort_values(rows) ==
    IF rows = <<>> THEN <<>>
    ELSE InsertRow(sort_values(SubSeq(rows, 1, Len(rows) - 1)), rows[Len(rows)])

\* the columns of the frame after the two renames
LoadedColumns(file) == {COLUMN_RENAMES(strip(cell)) : cell \in file.header}

\* [ok, df]: ok is FALSE when the body raises (KeyError at line 54, 56 or 68)
load_data(file) ==
    LET columns == LoadedColumns(file)
    IN  IF "year" \notin columns \/ "age_range" \notin columns \/ "country" \notin columns
        THEN [ok |-> FALSE, df |-> NoTable]
        ELSE [ok |-> TRUE,
              df |-> [columns |-> columns,
                      rows    |-> sort_values(
                          [i \in DOMAIN file.rows |->
                              [file.rows[i] EXCEPT !.age_range = Categorical(@)]])]]

(***************************************************************************)
(* Aggregations of the page renderers.                                     *)
(***************************************************************************)
TopN == 10

Max(S) == CHOOSE x \in S : \A y \in S : y <= x
Min(S) == CHOOSE x \in S : \A y \in S : x <= y

\* mutant: the last n rows instead of the first
head_from_end(s, n) == SubSeq(s, Len(s) - Min2(n, Len(s)) + 1, Len(s))

\* df.head(n)
head(s, n) == SubSeq(s, 1, Min2(n, Len(s)))

\* df.groupby(by, as_index=False)[col].sum(): one entry per distinct key, the
\* keys ascending, each with the sum of col over the rows of the key
groupby_sum(rows, by, col) ==
    LET keys == Sorted(Unique(rows, by), by)
    IN  [i \in DOMAIN keys |->
            [key   |-> keys[i],
             total |-> ColumnSum(SelectSeq(rows, LAMBDA r : r[by] = keys[i]), col)]]

\* sort_values("suicides_no", ascending=False) with the default sort kind,
\* which is not stable: entries with equal totals come out in an order the
\* build decides, so every descending order is an outcome
RECURSIVE DescendingOrders(_, _)
DescendingOrders(entries, left) ==
    IF left = {} THEN {<<>>}
    ELSE LET top  == Max({entries[i].total : i \in left})
             tops == {i \in left : entries[i].total = top}
         IN  UNION {{<<entries[i]>> \o t : t \in DescendingOrders(entries, left \ {i})} :
                       i \in tops}

sort_descending(entries) == DescendingOrders(entries, DOMAIN entries)

\* lines 239-241: the outcomes of the top-countries table
top_countries(rows) ==
    {head(o, TopN) : o \in sort_descending(groupby_sum(rows, "country", "suicides_no"))}

\* lines 308-310 and 320-322
breakdown_by(rows, by) == sort_descending(groupby_sum(rows, by, "suicides_no"))

\* lines 332-334: groupby(["country", "year"]), keys in lexicographic order
top_years(rows) ==
    LET withKey == [i \in DOMAIN rows |->
                       [cy |-> rows[i].country * 10000 + rows[i].year,
                        suicides_no |-> rows[i].suicides_no]]
        grouped == groupby_sum(withKey, "cy", "suicides_no")
        entries == [i \in DOMAIN grouped |->
                       [key   |-> <<grouped[i].key \div 10000, grouped[i].key % 10000>>,
                        total |-> grouped[i].total]]
    IN  {head(o, TopN) : o \in sort_descending(entries)}

\* mutant: the frame is not narrowed to the focus country
country_rows_unfiltered(rows, focus_country) == rows

\* line 267: df[df["country"] == focus_country]
country_rows(rows, focus_country) == SelectSeq(rows, LAMBDA r : r.country = focus_country)

\* .sort_values("year") on the grouped frame: insertion by ascending year
RECURSIVE InsertYear(_, _)
InsertYear(sorted, e) ==
    IF sorted = <<>> THEN <<e>>
    ELSE IF Head(sorted).year <= e.year THEN <<Head(sorted)>> \o InsertYear(Tail(sorted), e)
    ELSE <<e>> \o sorted

RECURSIVE sort_by_year(_)
sort_by_year(entries) ==
    IF entries = <<>> THEN <<>>
    ELSE InsertYear(sort_by_year(SubSeq(entries, 1, Len(entries) - 1)), entries[Len(entries)])

\* lines 267-277; a mean is kept exact, as [sum, count]
yearly_country(rows, focus_country) ==
    LET country_df == country_rows(rows, focus_country)
        years      == Sorted(Unique(country_df, "year"), "year")
        of(y)      == SelectSeq(country_df, LAMBDA r : r.year = y)
    IN  sort_by_year(
            [i \in DOMAIN years |->
                [year               |-> years[i],
                 suicides_no        |-> ColumnSum(of(years[i]), "suicides_no"),
                 population         |-> ColumnSum(of(years[i]), "population"),
                 suicides_per_100k  |-> [sum   |-> ColumnSum(of(years[i]), "suicides_per_100k"),
                                         count |-> Len(of(years[i]))],
                 gdp_per_capita_usd |-> [sum   |-> ColumnSum(of(years[i]), "gdp_per_capita_usd"),
                                         count |-> Len(of(years[i]))]]])

(***************************************************************************)
(* render_filters (src/master_deploy.py:103-151).  sess holds the values   *)
(* of the sidebar widgets, rendered_before the widgets the previous run    *)
(* rendered: a widget rendered for the first time takes its default.       *)
(***************************************************************************)
\* mutant: no fallback
FallBack_missing(selected, all) == selected

\* lines 114-115, 132-133, 141-142: an empty selection falls back to all options
FallBack(selected, all) == IF selected = {} THEN all ELSE selected

\* [ok, rendered, session, options, view]; ok is FALSE when the body raises:
\* at line 117 on a frame without rows (int() of the NaN minimum), KeyError
\* at line 126 or 135
render_filters(df, sess, rendered_before) ==
    LET all_countries  == Unique(df.rows, "country")
        raw_countries  == IF "Country" \in rendered_before THEN sess.countries ELSE all_countries
        min_year       == Min(Unique(df.rows, "year"))
        max_year       == Max(Unique(df.rows, "year"))
        selected_years == IF "Year range" \in rendered_before THEN sess.years
                          ELSE <<min_year, max_year>>
        all_sexes      == Unique(df.rows, "sex")
        raw_sexes      == IF "Sex" \in rendered_before THEN sess.sexes ELSE all_sexes
        all_age_groups == Unique(df.rows, "age_group")
        raw_age_groups == IF "Age group" \in rendered_before THEN sess.age_groups
                          ELSE all_age_groups
        failed(rendered, values, options) ==
            [ok |-> FALSE, rendered |-> rendered, session |-> values,
             options |-> options, view |-> NoTable]
        o1 == [NoOptions EXCEPT !.countries = Sorted(all_countries, "country")]
        s1 == [sess EXCEPT !.countries = raw_countries]
    IN  IF df.rows = <<>>
        THEN failed({"Country"}, s1, o1)
        ELSE LET o2 == [o1 EXCEPT !.years = <<min_year, max_year>>]
                 s2 == [s1 EXCEPT !.years = selected_years]
             IN  IF "sex" \notin df.columns
                 THEN failed({"Country", "Year range"}, s2, o2)
                 ELSE LET o3 == [o2 EXCEPT !.sexes = Sorted(all_sexes, "sex")]
                          s3 == [s2 EXCEPT !.sexes = raw_sexes]
                      IN  IF "age_group" \notin df.columns
                          THEN failed({"Country", "Year range", "Sex"}, s3, o3)
                          ELSE [ok       |-> TRUE,
                                rendered |-> {"Country", "Year range", "Sex", "Age group"},
                                session  |-> [s3 EXCEPT !.age_groups = raw_age_groups],
                                options  |-> [o3 EXCEPT !.age_groups =
                                                 Sorted(all_age_groups, "age_group")],
                                view     |-> apply_filters(
                                    df,
                                    FallBack(raw_countries, all_countries),
                                    selected_years,
                                    FallBack(raw_sexes, all_sexes),
                                    FallBack(raw_age_groups, all_age_groups))]

(***************************************************************************)
(* The page renderers (src/master_deploy.py:154-335).  Each returns the    *)
(* set of outcomes [status, out, rendered] of the call; the charts are     *)
(* the charting library's and only the tables handed to them are kept.     *)
(***************************************************************************)
EmptyOut ==
    [kind |-> "none", metrics |-> <<>>, top_countries |-> <<>>, yearly_country |-> <<>>,
     age_breakdown |-> <<>>, sex_breakdown |-> <<>>, top_years |-> <<>>,
     focus_options |-> <<>>, focus_country |-> 0]

\* an exception raised by the renderer
Raised(rendered, o) ==
    {[status |-> "page_error", rendered |-> rendered, out |-> [o EXCEPT !.kind = "error"]]}

\* st.info("No data available with the current filters. ...")
Info == {[status |-> "ok", rendered |-> {}, out |-> [EmptyOut EXCEPT !.kind = "info"]]}

\* a / b rounded to an integer for naturals a, b > 0 whose quotient the float
\* division gives exactly: halfway cases go to the even neighbour
RoundHalfEven(a, b) ==
    LET q == a \div b
        r == a % b
    IN  IF 2 * r < b THEN q
        ELSE IF 2 * r > b THEN q + 1
        ELSE IF q % 2 = 0 THEN q ELSE q + 1

\* line 163 and 168: f"{df['suicides_per_100k'].mean():.1f}"; the mean of no
\* rows is NaN, which the format prints as nan
average_rate(rows) ==
    IF rows = <<>> THEN {<<"n", "a", "n">>}
    ELSE {Fixed1(FALSE, t) : t \in RoundDiv(ColumnSum(rows, "suicides_per_100k"), Len(rows))}

render_home(df) ==
    IF ~({"suicides_no", "suicides_per_100k", "population"} \subseteq df.columns)
    THEN Raised({}, EmptyOut)
    ELSE {[status   |-> "ok",
           rendered |-> {},
           out      |-> [EmptyOut EXCEPT
                            !.kind = "home",
                            !.metrics = <<total, rate, population,
                                          Comma0(Cardinality(Unique(df.rows, "country")))>>]] :
             total      \in format_number(Num(ColumnSum(df.rows, "suicides_no"))),
             rate       \in average_rate(df.rows),
             population \in format_number(Num(ColumnSum(df.rows, "population")))}

render_visualisations(df) ==
    IF df.rows = <<>> THEN Info
    ELSE IF ~({"suicides_no", "population"} \subseteq df.columns)
    THEN Raised({}, EmptyOut)
    ELSE {[status   |-> "ok",
           rendered |-> {},
           out      |-> [EmptyOut EXCEPT !.kind = "charts", !.top_countries = top]] :
             top \in top_countries(df.rows)}

\* previous is the out of the run before: the Focus country selectbox keeps
\* its value only if that run rendered it with the same options
render_analysis(df, sess, rendered_before, previous) ==
    IF df.rows = <<>> THEN Info
    ELSE
      LET country_options == Sorted(Unique(df.rows, "country"), "country")
          focus_country ==
              IF "Focus country" \in rendered_before /\ previous.focus_options = country_options
              THEN sess.focus
              ELSE country_options[1]
          shown      == [EmptyOut EXCEPT !.focus_options = country_options,
                                         !.focus_country = focus_country]
          country_df == country_rows(df.rows, focus_country)
      IN  IF ~({"suicides_no", "population", "suicides_per_100k", "gdp_per_capita_usd"}
                  \subseteq df.columns)
          THEN Raised({"Focus country"}, shown)
          ELSE {[status   |-> "ok",
                 rendered |-> {"Focus country"},
                 out      |-> [shown EXCEPT
                     !.kind = "analysis",
                     !.yearly_country = yearly_country(df.rows, focus_country),
                     !.metrics =
                         <<total,
                           Fixed1(FALSE, Max(Unique(country_df, "suicides_per_100k"))),
                           <<"$">> \o Comma0(RoundHalfEven(
                               ColumnSum(country_df, "gdp_per_capita_usd"), Len(country_df)))>>,
                     !.age_breakdown = ages,
                     !.sex_breakdown = sexes,
                     !.top_years = years]] :
                   total \in format_number(Num(ColumnSum(country_df, "suicides_no"))),
                   ages  \in breakdown_by(country_df, "age_group"),
                   sexes \in breakdown_by(country_df, "sex"),
                   years \in top_years(df.rows)}

(***************************************************************************)
(* main (src/master_deploy.py:338-351): one run of the script.  Streamlit  *)
(* runs it when the page is opened and again after every interaction.      *)
(***************************************************************************)
\* st.cache_data: the stored frame on a hit, the body of load_data otherwise
cached_load_data(entry, file) ==
    IF entry.hit THEN [ok |-> TRUE, df |-> entry.df] ELSE load_data(file)

\* mutant: the sidebar filters the view of the previous run
main_frame_previous(loaded, previous_view) == previous_view

\* lines 339 and 344: the frame handed to render_filters is the one load_data
\* returned in this run, whatever the previous run displayed
main_frame(loaded, previous_view) == loaded

\* lines 346-351
render_page(page, view, sess, rendered_before, previous) ==
    IF page = "Home" THEN render_home(view)
    ELSE IF page = "Visualisations" THEN render_visualisations(view)
    ELSE render_analysis(view, sess, rendered_before, previous)

main(sess) ==
    LET loaded == cached_load_data(cache, csv)
        page   == IF "Pages" \in widgets THEN sess.page ELSE "Home"
    IN  IF ~loaded.ok
        THEN /\ status' = "load_error"
             /\ out' = [EmptyOut EXCEPT !.kind = "error"]
             /\ UNCHANGED <<csv, cache, widgets, session, sidebar, filtered_df>>
        ELSE LET rf == render_filters(main_frame(loaded.df, filtered_df), sess, widgets)
             IN  /\ cache' = [hit |-> TRUE, df |-> loaded.df]
                 /\ sidebar' = rf.options
                 /\ UNCHANGED csv
                 /\ IF ~rf.ok
                    THEN /\ status' = "filters_error"
                         /\ widgets' = {"Pages"} \cup rf.rendered
                         /\ session' = [rf.session EXCEPT !.page = page, !.focus = 0]
                         /\ filtered_df' = NoTable
                         /\ out' = [EmptyOut EXCEPT !.kind = "error"]
                    ELSE /\ filtered_df' = rf.view
                         /\ \E pg \in render_page(page, rf.view, sess, widgets, out) :
                               /\ status' = pg.status
                               /\ widgets' = {"Pages"} \cup rf.rendered \cup pg.rendered
                               /\ session' = [rf.session EXCEPT
                                                 !.page = page,
                                                 !.focus = pg.out.focus_country]
                               /\ out' = pg.out

Toggle(set, x) == IF x \in set THEN set \ {x} ELSE set \cup {x}

Pages == {"Home", "Visualisations", "Analysis"}

\* the browser opens the page: the first run
Open ==
    /\ status = "start"
    /\ main(session)
    /\ UNCHANGED <<filterVars, formatVars>>

\* the Pages radio
Navigate(p) ==
    /\ "Pages" \in widgets
    /\ p # session.page
    /\ main([session EXCEPT !.page = p])
    /\ UNCHANGED <<filterVars, formatVars>>

\* an option of the Country multiselect is selected or deselected
ToggleCountry(c) ==
    /\ "Country" \in widgets
    /\ c \in Range(sidebar.countries)
    /\ main([session EXCEPT !.countries = Toggle(@, c)])
    /\ UNCHANGED <<filterVars, formatVars>>

\* the Year range slider is moved
SlideYears(lo, hi) ==
    /\ "Year range" \in widgets
    /\ sidebar.years[1] <= lo /\ lo <= hi /\ hi <= sidebar.years[2]
    /\ <<lo, hi>> # session.years
    /\ main([session EXCEPT !.years = <<lo, hi>>])
    /\ UNCHANGED <<filterVars, formatVars>>

ToggleSex(x) ==
    /\ "Sex" \in widgets
    /\ x \in Range(sidebar.sexes)
    /\ main([session EXCEPT !.sexes = Toggle(@, x)])
    /\ UNCHANGED <<filterVars, formatVars>>

ToggleAgeGroup(a) ==
    /\ "Age group" \in widgets
    /\ a \in Range(sidebar.age_groups)
    /\ main([session EXCEPT !.age_groups = Toggle(@, a)])
    /\ UNCHANGED <<filterVars, formatVars>>

\* the Focus country selectbox of the Analysis page
PickFocus(c) ==
    /\ "Focus country" \in widgets
    /\ c \in Range(out.focus_options)
    /\ c # session.focus
    /\ main([session EXCEPT !.focus = c])
    /\ UNCHANGED <<filterVars, formatVars>>

(***************************************************************************)
(* Harness for apply_filters as a pure function: a table and arguments are *)
(* drawn from bounded sets, apply_filters is applied, and applied again to *)
(* its own result.                                                         *)
(***************************************************************************)
MaxRows == 2

FCountries == {1, 2}
FYears     == {2000, 2001}
FSexes     == {"female", "male"}
FAgeGroups == {"Adults", "Youth"}
FColumns   == {"country", "year", "sex", "age_group"}

FRowKinds == [country : FCountries, year : FYears, sex : FSexes, age_group : FAgeGroups]

\* the index label of a harness row is its position in the table
FIndexed(kinds) ==
    [i \in DOMAIN kinds |->
        [idx |-> i, country |-> kinds[i].country, year |-> kinds[i].year,
         sex |-> kinds[i].sex, age_group |-> kinds[i].age_group]]

FTables ==
    {[columns |-> FColumns, rows |-> FIndexed(k)] :
        k \in UNION {[1..n -> FRowKinds] : n \in 0..MaxRows}}

FArgs ==
    [countries : SUBSET FCountries, year_range : FYears \X FYears,
     sexes : SUBSET FSexes, age_groups : SUBSET FAgeGroups]

FormatIdle == n_value = NaN /\ n_out = <<>>

AppIdle ==
    /\ csv = [header |-> {}, rows |-> <<>>]
    /\ status = "idle"
    /\ cache = [hit |-> FALSE, df |-> NoTable]
    /\ widgets = {}
    /\ session = NoSession
    /\ sidebar = NoOptions
    /\ filtered_df = NoTable
    /\ out = EmptyOut

InitFilter ==
    /\ FormatIdle
    /\ AppIdle
    /\ f_df \in FTables
    /\ f_args \in FArgs
    /\ f_out = NoTable
    /\ f_pc = "input"

ApplyFilters ==
    /\ f_pc = "input"
    /\ f_out' = apply_filters(f_df, f_args.countries, f_args.year_range,
                              f_args.sexes, f_args.age_groups)
    /\ f_pc' = "filtered"
    /\ UNCHANGED <<f_df, f_args, formatVars, appVars>>

ReapplyFilters ==
    /\ f_pc = "filtered"
    /\ f_out' = apply_filters(f_out, f_args.countries, f_args.year_range,
                              f_args.sexes, f_args.age_groups)
    /\ f_pc' = "refiltered"
    /\ UNCHANGED <<f_df, f_args, formatVars, appVars>>

NextFilter == ApplyFilters \/ ReapplyFilters

SpecFilter == InitFilter /\ [][NextFilter]_vars

(***************************************************************************)
(* Properties of apply_filters, under SpecFilter.                          *)
(***************************************************************************)
\* the four predicates of the filter contract, for one row
Admitted(r, args) ==
    /\ r.country \in args.countries
    /\ args.year_range[1] <= r.year
    /\ r.year <= args.year_range[2]
    /\ r.sex \in args.sexes
    /\ r.age_group \in args.age_groups

\* C1: apply_filters returns exactly the rows of the input table whose
\* country, sex and age_group are in the given sets and whose year lies in
\* [min, max], both bounds included: every returned row is an input row that
\* satisfies the four predicates, every such input row is returned, and the
\* returned rows keep the relative order of the input (a harness row's idx
\* is its position in the input).
C1_FilterExact ==
    f_pc = "filtered" =>
        /\ f_out.columns = f_df.columns
        /\ \A i \in DOMAIN f_out.rows :
              f_out.rows[i] \in Range(f_df.rows) /\ Admitted(f_out.rows[i], f_args)
        /\ \A j \in DOMAIN f_df.rows :
              Admitted(f_df.rows[j], f_args) => f_df.rows[j] \in Range(f_out.rows)
        /\ \A i, k \in DOMAIN f_out.rows : i < k => f_out.rows[i].idx < f_out.rows[k].idx

\* two rows are kept, one on each bound of the year range, in input order
C1_Witness ==
    /\ f_pc = "filtered"
    /\ Len(f_out.rows) = 2
    /\ f_args.year_range[1] < f_args.year_range[2]
    /\ f_out.rows[1].year = f_args.year_range[2]
    /\ f_out.rows[2].year = f_args.year_range[1]

\* all values of a column present in the harness table
AllValues(col) == Unique(f_df.rows, col)

\* C2 as claimed: an empty countries, sexes or age_groups argument gives
\* the same rows as that argument set to all values of its column present in
\* the table.
C2_EmptyMeansAll ==
    f_pc = "filtered" =>
        /\ f_args.countries = {} =>
              f_out = apply_filters(f_df, AllValues("country"), f_args.year_range,
                                    f_args.sexes, f_args.age_groups)
        /\ f_args.sexes = {} =>
              f_out = apply_filters(f_df, f_args.countries, f_args.year_range,
                                    AllValues("sex"), f_args.age_groups)
        /\ f_args.age_groups = {} =>
              f_out = apply_filters(f_df, f_args.countries, f_args.year_range,
                                    f_args.sexes, AllValues("age_group"))

\* C2 amended: apply_filters takes an empty countries, sexes or age_groups
\* argument as "nothing allowed": with one of the three empty it returns no
\* rows, whatever the table and the other arguments.
C2_EmptyMeansNone ==
    (f_pc = "filtered" /\ (f_args.countries = {} \/ f_args.sexes = {} \/ f_args.age_groups = {}))
        => f_out.rows = <<>>

\* countries alone is empty, and with all countries the result has rows
C2_Witness ==
    /\ f_pc = "filtered"
    /\ f_args.countries = {}
    /\ f_out.rows = <<>>
    /\ apply_filters(f_df, AllValues("country"), f_args.year_range,
                     f_args.sexes, f_args.age_groups).rows # <<>>

\* C9: filtering is idempotent: apply_filters applied with the same
\* arguments to its own result returns that result, rows and order.
C9_Idempotent == [][(f_pc = "filtered" /\ f_pc' = "refiltered") => f_out' = f_out]_vars

\* a second application to a result that kept one of two rows
C9_Witness ==
    /\ f_pc = "refiltered"
    /\ Len(f_df.rows) = 2
    /\ Len(f_out.rows) = 1

(***************************************************************************)
(* Harness for format_number as a pure function: the values around each    *)
(* threshold and around each rounding boundary below a threshold, of both  *)
(* signs, and NaN.                                                         *)
(***************************************************************************)
FmtSpan == 3

FmtBases == {0, 950, 1000, 1050, 999950, 1000000, 1234567, 999950000, 1000000000}

FmtValues ==
    {NaN} \cup {Num(s * (b + k)) : s \in {1, -1}, b \in FmtBases, k \in (0 - FmtSpan)..FmtSpan}

FilterIdle == f_df = NoTable /\ f_args = NoArgs /\ f_out = NoTable /\ f_pc = "idle"

InitFormat ==
    /\ FilterIdle
    /\ AppIdle
    /\ n_value \in FmtValues
    /\ n_out = <<>>

FormatNumber ==
    /\ n_out = <<>>
    /\ n_out' \in format_number(n_value)
    /\ UNCHANGED <<n_value, filterVars, appVars>>

NextFormat == FormatNumber

SpecFormat == InitFormat /\ [][NextFormat]_vars

(***************************************************************************)
(* The dashboard.  The file is one of a family: the full header, the header *)
(* with padded cells, and the header with one column missing.              *)
(***************************************************************************)
Cell(name) == [name |-> name, padded |-> FALSE]

FullHeader ==
    {Cell(n) : n \in {"country", "year", "sex", "age range", "suicides_no", "population",
                      "suicides/100k pop", "country-year", "gdp_for_year ($)",
                      "gdp_per_capita ($)", "generation", "ag_group"}}

PaddedHeader == {[c EXCEPT !.padded = c.name \in {"country", "ag_group"}] : c \in FullHeader}

Droppable ==
    {"country", "year", "sex", "age range", "suicides_no", "suicides/100k pop", "ag_group"}

Headers == {FullHeader, PaddedHeader} \cup {FullHeader \ {Cell(n)} : n \in Droppable}

Row(idx, country, year, sex, age_range, age_group, suicides_no, population, rate, gdp) ==
    [idx |-> idx, country |-> country, year |-> year, sex |-> sex,
     age_range |-> age_range, age_group |-> age_group, suicides_no |-> suicides_no,
     population |-> population, suicides_per_100k |-> rate, gdp_per_capita_usd |-> gdp]

\* the rows of the file, in file order
SmallRows ==
    <<Row(0, 2, 2001, "male",   "15-24 years", "Youth",   20, 1200000, 17,  30000),
      Row(1, 1, 2001, "female", "35-54 years", "Adults",  10, 999950,  10,  20001),
      Row(2, 1, 2000, "male",   "35-54 years", "Adults",  10, 500000,  20,  20000),
      Row(3, 2, 2000, "female", "15-24 years", "Youth",   5,  800,     62,  29000),
      Row(4, 1, 2001, "male",   "15-24 years", "Youth",   10, 300000,  23,  20002),
      Row(5, 3, 2001, "female", "75+",         "Seniors", 20, 1000,    200, 5000)>>

AppStart ==
    /\ status = "start"
    /\ cache = [hit |-> FALSE, df |-> NoTable]
    /\ widgets = {}
    /\ session = NoSession
    /\ sidebar = NoOptions
    /\ filtered_df = NoTable
    /\ out = EmptyOut

Init ==
    /\ FilterIdle
    /\ FormatIdle
    /\ csv \in {[header |-> h, rows |-> SmallRows] : h \in Headers}
    /\ AppStart

Next ==
    \/ Open
    \/ \E p \in Pages : Navigate(p)
    \/ \E c \in Unique(SmallRows, "country") : ToggleCountry(c)
    \/ \E lo, hi \in Unique(SmallRows, "year") : SlideYears(lo, hi)
    \/ \E x \in Unique(SmallRows, "sex") : ToggleSex(x)
    \/ \E a \in Unique(SmallRows, "age_group") : ToggleAgeGroup(a)
    \/ \E c \in Unique(SmallRows, "country") : PickFocus(c)

Spec == Init /\ [][Next]_vars

(***************************************************************************)
(* The dashboard over a file with more countries than the top-countries    *)
(* table holds; the user moves to the Visualisations page and works the    *)
(* Country multiselect there.                                              *)
(***************************************************************************)
BigCountries == 11

\* the rows of country c: one for 2000 and, for an even c, one for 2001.
\* The totals differ from country to country, except that countries 3 and 8
\* both total 4, the two lowest totals of the file.
BigRowsOf(c) ==
    <<Row(2 * c, c, 2000, "male", "35-54 years", "Adults",
          2 * ((c * 5) % 13), 1000 * c, 10 + c, 1000)>>
    \o (IF c % 2 = 0
        THEN <<Row(2 * c + 1, c, 2001, "male", "35-54 years", "Adults",
                   IF c = 8 THEN 2 ELSE 1, 1000 * c, 20 + c, 1000)>>
        ELSE <<>>)

\* file order: the countries descending
RECURSIVE BigRowsFrom(_)
BigRowsFrom(c) == IF c = 0 THEN <<>> ELSE BigRowsOf(c) \o BigRowsFrom(c - 1)

BigRows == BigRowsFrom(BigCountries)

InitTop ==
    /\ FilterIdle
    /\ FormatIdle
    /\ csv = [header |-> FullHeader, rows |-> BigRows]
    /\ AppStart

NextTop ==
    \/ Open
    \/ Navigate("Visualisations")
    \/ session.page = "Visualisations" /\ \E c \in 1..BigCountries : ToggleCountry(c)

SpecTop == InitTop /\ [][NextTop]_vars

(***************************************************************************)
(* Properties of format_number, under SpecFormat.  The returned string is  *)
(* read back: its sign, the digits before and after the point, its suffix. *)
(***************************************************************************)
IsDigit(c) == \E i \in DOMAIN DigitChars : DigitChars[i] = c

DigitValue(c) == (CHOOSE i \in DOMAIN DigitChars : DigitChars[i] = c) - 1

RECURSIVE ReadNat(_)
ReadNat(chars) ==
    IF chars = <<>> THEN 0
    ELSE 10 * ReadNat(SubSeq(chars, 1, Len(chars) - 1)) + DigitValue(chars[Len(chars)])

Unsigned(str) == IF str # <<>> /\ str[1] = "-" THEN Tail(str) ELSE str

\* str is [-]digits.digit followed by the suffix
IsScaled(str, suffix) ==
    LET body == Unsigned(str)
    IN  /\ Len(body) >= 4
        /\ body[Len(body)] = suffix
        /\ IsDigit(body[Len(body) - 1])
        /\ body[Len(body) - 2] = "."
        /\ \A i \in 1..(Len(body) - 3) : IsDigit(body[i])

\* the number a scaled string shows before its suffix, in tenths
ShownTenths(str) ==
    LET body == Unsigned(str)
    IN  10 * ReadNat(SubSeq(body, 1, Len(body) - 3)) + DigitValue(body[Len(body) - 1])

\* str shows v / unit at one decimal place with the suffix: the number shown
\* is within half a tenth of the quotient, and carries the sign of v
ShowsScaled(str, v, unit, suffix) ==
    /\ IsScaled(str, suffix)
    /\ (str[1] = "-") = (v < 0)
    /\ LET gap == Abs(v) - ShownTenths(str) * (unit \div 10)
       IN  2 * Abs(gap) <= unit \div 10

\* str is the integer v, comma-grouped, with no suffix
ShowsInteger(str, v) ==
    LET body == Unsigned(str)
        digits == SelectSeq(body, LAMBDA c : c # ",")
    IN  /\ body # <<>>
        /\ (str[1] = "-") = (v < 0)
        /\ \A i \in DOMAIN digits : IsDigit(digits[i])
        /\ ReadNat(digits) = Abs(v)
        /\ \A i \in DOMAIN body :
              (body[i] = ",") = (i < Len(body) /\ (Len(body) - i) % 4 = 3)

\* the contract of format_number on the value and the string of the harness
FormatContract ==
    IF n_value.isna THEN n_out = <<"-">>
    ELSE LET v == n_value.num
         IN  /\ Abs(v) >= Billion => ShowsScaled(n_out, v, Billion, "B")
             /\ (Abs(v) >= Million /\ Abs(v) < Billion) => ShowsScaled(n_out, v, Million, "M")
             /\ (Abs(v) >= Thousand /\ Abs(v) < Million) => ShowsScaled(n_out, v, Thousand, "K")
             /\ Abs(v) < Thousand => ShowsInteger(n_out, v)
             /\ v = 1234567 => n_out = <<"1", ".", "2", "M">>
             /\ v = 950 => n_out = <<"9", "5", "0">>

HasSuffixKM == n_out # <<>> /\ n_out[Len(n_out)] \in {"K", "M"}

\* C6 as claimed: the contract, and the number shown before a K or M suffix
\* is below 1000.0 in magnitude.
C6_BelowThousand ==
    n_out # <<>> =>
        /\ FormatContract
        /\ HasSuffixKM => ShownTenths(n_out) < 10000

\* C6 amended: format_number is total and returns "-" for a missing/NaN
\* input; otherwise value/1e9 at one decimal place with suffix B when
\* |value| >= 1e9, else value/1e6 with suffix M when |value| >= 1e6, else
\* value/1e3 with suffix K when |value| >= 1e3, else the comma-grouped
\* integer; format_number(1_234_567) = "1.2M" and format_number(950) = "950";
\* the number shown before a K or M suffix is at most 1000.0 in magnitude,
\* and is 1000.0 where the quotient rounds up to it:
\* format_number(999_999) = "1000.0K".
C6_AtMostThousand ==
    n_out # <<>> =>
        /\ FormatContract
        /\ HasSuffixKM => ShownTenths(n_out) <= 10000
        /\ n_value = Num(999999) => n_out = <<"1", "0", "0", "0", ".", "0", "K">>

\* a value just below the M threshold has been formatted
C6_Witness ==
    /\ n_value = Num(999999)
    /\ n_out = <<"1", "0", "0", "0", ".", "0", "K">>

(***************************************************************************)
(* Properties of the dashboard, under Spec and SpecTop.                    *)
(***************************************************************************)
\* the last run got through render_filters: filtered_df is its result
Filtered == status \in {"ok", "page_error"}

\* the sum of col over the rows at the positions in S
RECURSIVE SumAt(_, _, _)
SumAt(rows, S, col) ==
    IF S = {} THEN 0
    ELSE LET i == CHOOSE j \in S : TRUE
         IN  rows[i][col] + SumAt(rows, S \ {i}, col)

\* what render_filters returns for the loaded frame with one sidebar control
\* set to every option it offers and the other controls as they are
WithAll(control) ==
    render_filters(cache.df, [session EXCEPT ![control] = Range(sidebar[control])], widgets).view

\* C3: when the Country, Sex or Age group multiselect is left empty, the
\* filtered view of that run is the view obtained with every option of that
\* multiselect selected and the other controls unchanged.
C3_EmptySelectionIsAll ==
    Filtered =>
        \A control \in {"countries", "sexes", "age_groups"} :
            session[control] = {} => filtered_df = WithAll(control)

\* the Country multiselect is empty, the other two are not, and the view
\* has rows
C3_Witness ==
    /\ status = "ok"
    /\ session.countries = {}
    /\ session.sexes # {} /\ session.age_groups # {}
    /\ filtered_df.rows # <<>>

\* the columns the filter engine and the aggregations read
RequiredColumns ==
    {"country", "year", "sex", "age_group", "age_range", "suicides_no", "population",
     "suicides_per_100k", "gdp_per_capita_usd"}

\* C4: whenever the filtered table is empty, the page renderer completes
\* without an error and shows a placeholder or the informational message:
\* the Home KPI for the average rate is not the undefined value, and
\* Visualisations and Analysis show the message and no aggregate.
C4_EmptyViewHandled ==
    (Filtered /\ RequiredColumns \subseteq cache.df.columns /\ filtered_df.rows = <<>>) =>
        /\ status = "ok"
        /\ session.page = "Home" =>
              /\ out.kind = "home"
              /\ out.metrics[2] # <<"n", "a", "n">>
        /\ session.page # "Home" => out = [EmptyOut EXCEPT !.kind = "info"]

\* C5: loading fails with a load error whenever a required column is absent
\* from the CSV: load_data never returns a table that lacks one, and no run
\* reaches render_filters or a page renderer with such a table.
C5_MissingColumnFailsLoad ==
    (status # "start" /\ ~(RequiredColumns \subseteq LoadedColumns(csv))) =>
        /\ status = "load_error"
        /\ ~cache.hit

\* C8: the yearly series of the focus country has exactly one entry per
\* distinct year the country has in the filtered table, in strictly
\* ascending year order, and each entry's suicides_no and population are the
\* sums over the rows of that country and year; rows of other countries do
\* not contribute.
C8_YearlySeries ==
    (status = "ok" /\ out.kind = "analysis") =>
        LET rows   == filtered_df.rows
            series == out.yearly_country
            at(y)  == {i \in DOMAIN rows :
                          rows[i].country = out.focus_country /\ rows[i].year = y}
        IN  /\ {series[i].year : i \in DOMAIN series} =
                   {rows[i].year : i \in {j \in DOMAIN rows : rows[j].country = out.focus_country}}
            /\ \A i, k \in DOMAIN series : i < k => series[i].year < series[k].year
            /\ \A i \in DOMAIN series :
                  /\ series[i].suicides_no = SumAt(rows, at(series[i].year), "suicides_no")
                  /\ series[i].population = SumAt(rows, at(series[i].year), "population")

\* country 1 is the focus, with 10 suicides in 2000 and 20 over two rows in
\* 2001, while the view holds rows of another country in both years
C8_Witness ==
    /\ status = "ok" /\ out.kind = "analysis"
    /\ out.focus_country = 1
    /\ Len(out.yearly_country) = 2
    /\ out.yearly_country[1].year = 2000 /\ out.yearly_country[1].suicides_no = 10
    /\ out.yearly_country[2].year = 2001 /\ out.yearly_country[2].suicides_no = 20
    /\ \E i, k \in DOMAIN filtered_df.rows :
          /\ filtered_df.rows[i].country = 2 /\ filtered_df.rows[i].year = 2000
          /\ filtered_df.rows[k].country = 2 /\ filtered_df.rows[k].year = 2001

\* a selection with an empty multiselect standing for all its options
Effective(selected, options) == IF selected = {} THEN Range(options) ELSE selected

\* the rows of the loaded dataset that the current selections admit
SelectedRows(rows) ==
    SelectSeq(rows, LAMBDA r :
        /\ r.country \in Effective(session.countries, sidebar.countries)
        /\ session.years[1] <= r.year /\ r.year <= session.years[2]
        /\ r.sex \in Effective(session.sexes, sidebar.sexes)
        /\ r.age_group \in Effective(session.age_groups, sidebar.age_groups))

\* the rows of the file, in the order load_data leaves them: by (country,
\* year), rows of equal key in file order
IsLoadOf(rows, file) ==
    /\ Len(rows) = Len(file)
    /\ {rows[i].idx : i \in DOMAIN rows} = {file[i].idx : i \in DOMAIN file}
    /\ \A i \in DOMAIN rows : \E j \in DOMAIN file :
          rows[i] = [file[j] EXCEPT !.age_range = rows[i].age_range]
    /\ \A i, k \in DOMAIN rows : i < k => KeyLeq(rows[i], rows[k])

\* The state part of C10: after every run the loaded dataset holds the rows
\* of the file in (country, year) order, as right
\* after the load; the options the filters offer are those of the full
\* dataset, and the filtered view is the full dataset filtered by the
\* current selections, whatever the runs before displayed.
C10_AfterRun ==
    (status \in {"ok", "page_error", "filters_error"}) =>
        /\ cache.hit
        /\ IsLoadOf(cache.df.rows, csv.rows)
        /\ sidebar.countries = Sorted(Unique(csv.rows, "country"), "country")
        /\ sidebar.years = <<Min(Unique(csv.rows, "year")), Max(Unique(csv.rows, "year"))>>
        /\ Filtered =>
              /\ sidebar.sexes = Sorted(Unique(csv.rows, "sex"), "sex")
              /\ sidebar.age_groups = Sorted(Unique(csv.rows, "age_group"), "age_group")
              /\ filtered_df.rows = SelectedRows(cache.df.rows)

\* C10: every run leaves the loaded dataset as it found it and ends in a
\* state where C10_AfterRun holds.
C10_DatasetReadOnly == [][(cache.hit => cache' = cache) /\ C10_AfterRun']_vars

\* a narrow view, reached only through several interactions
C10_Witness ==
    /\ status = "ok"
    /\ session.countries = {3}
    /\ session.years = <<2001, 2001>>
    /\ session.page = "Analysis"
    /\ Len(filtered_df.rows) = 1

\* C7: the top-countries table holds at most TopN rows, one per distinct
\* country of the filtered table (all of them when there are at most TopN),
\* ordered by total descending; each total is the sum of suicides_no over
\* the rows of the country, and no country left out has a total greater than
\* one that is included.
C7_TopCountries ==
    (status = "ok" /\ out.kind = "charts") =>
        LET rows      == filtered_df.rows
            top       == out.top_countries
            countries == {rows[i].country : i \in DOMAIN rows}
            total(c)  == SumAt(rows, {i \in DOMAIN rows : rows[i].country = c}, "suicides_no")
            included  == {top[i].key : i \in DOMAIN top}
        IN  /\ Len(top) = Min2(TopN, Cardinality(countries))
            /\ included \subseteq countries
            /\ Cardinality(included) = Len(top)
            /\ \A i \in DOMAIN top : top[i].total = total(top[i].key)
            /\ \A i, k \in DOMAIN top : i < k => top[i].total >= top[k].total
            /\ \A c \in countries \ included : \A i \in DOMAIN top : total(c) <= top[i].total

\* more countries than the table holds: the table is cut at TopN rows, and
\* the cut falls between countries 3 and 8, whose totals are equal
C7_Witness ==
    /\ status = "ok" /\ out.kind = "charts"
    /\ Cardinality({filtered_df.rows[i].country : i \in DOMAIN filtered_df.rows}) > TopN
    /\ Len(out.top_countries) = TopN
    /\ out.top_countries[TopN].key = 8
    /\ \A i \in DOMAIN out.top_countries : out.top_countries[i].key # 3

====
